---- MODULE Spec2Model ----
(***************************************************************************)
(* CycleGANModel (models/cycle_cycle_last.py): the alternating             *)
(* generator / discriminator update of optimize_parameters, the diagnostic *)
(* pass calculate, the two image pools, and the generator loss assembly of *)
(* backward_G.                                                             *)
(*                                                                         *)
(* Spec      the training object as a state machine: one action per line   *)
(*           of optimize_parameters and of calculate.  Network parameters  *)
(*           are version counters (one increment per optimizer step),      *)
(*           gradients are the set of losses accumulated into them, loss   *)
(*           attributes are undefined / stale / fresh.                     *)
(* SpecPool  the two image pools under every sequence of the queries       *)
(*           backward_D_A and backward_D_B issue, with batches of several  *)
(*           samples of arbitrary values.                                  *)
(* SpecLoss  backward_G as a function of the attributes it reads, with     *)
(*           tensors of NPix pixels in thousandths of the depth unit.      *)
(***************************************************************************)
EXTENDS Integers, Sequences, FiniteSets, TLC

VARIABLES
    opt,              \* self.opt: the option record fixed at construction
    pc,               \* position inside the running call, "idle" between calls
    frame,            \* arguments of the running call and snapshots taken at its entry
    ncalls,           \* number of calls started so far (bounds the run)
    paramsG,          \* netG_A / netG_B parameters: number of optimizer_G steps applied
    paramsD,          \* netD_A / netD_B parameters: number of optimizer_D steps applied
    gradG,            \* losses whose backward is accumulated in the generators' .grad
    gradD,            \* losses whose backward is accumulated in the discriminators' .grad
    requires_grad_D,  \* requires_grad of the parameters of netD_A and netD_B
    fake_A,           \* self.fake_A: the batch G_B produced in the last forward
    fake_B,           \* self.fake_B: the batch G_A produced in the last forward
    norm_maps,        \* the eight self.norm_* attributes: "undef", "stale" or "fresh"
    fake_A_pool,      \* self.fake_A_pool
    fake_B_pool,      \* self.fake_B_pool
    D_fake,           \* the local fake of the backward_D_A / backward_D_B that just ran
    loss_attr,        \* self.loss_<name>: "undef", "stale" or "fresh"
    T,                \* SpecLoss: the tensors backward_G reads
    loss              \* SpecLoss: the values backward_G assigned

vars == <<opt, pc, frame, ncalls, paramsG, paramsD, gradG, gradD, requires_grad_D,
          fake_A, fake_B, norm_maps, fake_A_pool, fake_B_pool, D_fake, loss_attr,
          T, loss>>

lossVars == <<T, loss>>

trainVars == <<pc, frame, ncalls, paramsG, paramsD, gradG, gradD, requires_grad_D,
               fake_A, fake_B, norm_maps, fake_A_pool, fake_B_pool, D_fake, loss_attr>>

(***************************************************************************)
(* Bounds of the model.                                                    *)
(***************************************************************************)
MaxCalls == 2      \* Spec: calls in one run
MaxIters == 3      \* Spec: iters is drawn from 0..MaxIters
MaxFr == 3         \* Spec: fr is drawn from 0..MaxFr
MaxBatch == 1      \* Spec: samples in one input batch
MaxPool == 1       \* Spec: opt.pool_size is drawn from 0..MaxPool
MaxCapacity == 2   \* SpecPool: opt.pool_size is drawn from 0..MaxCapacity
MaxQueryBatch == 2 \* SpecPool: samples in one queried batch
NSamples == 2      \* SpecPool: distinct sample values
NPix == 1          \* SpecLoss: pixels of a tensor

NoFrame == [op |-> "none"]

(***************************************************************************)
(* ImagePool (util/image_pool.py).                                         *)
(***************************************************************************)

\* ImagePool(pool_size): an empty buffer of the given capacity.
ImagePool(pool_size) == [pool_size |-> pool_size, images |-> <<>>]

\* One incoming image: stored and returned while the buffer is not yet at
\* capacity; at capacity, for a random index, either the incoming image is
\* returned and takes that slot, or the stored image of that slot is
\* returned and kept.  The set of possible [pool, out] results.
QueryOne(pool, image) ==
    IF Len(pool.images) < pool.pool_size
    THEN {[pool |-> [pool EXCEPT !.images = Append(@, image)], out |-> image]}
    ELSE {[pool |-> [pool EXCEPT !.images[i] = image], out |-> image] :
              i \in 1..pool.pool_size}
         \cup {[pool |-> pool, out |-> pool.images[i]] : i \in 1..pool.pool_size}

RECURSIVE QueryFrom(_, _, _)
QueryFrom(pool, images, k) ==
    IF k > Len(images)
    THEN {[pool |-> pool, out |-> <<>>]}
    ELSE UNION {{[pool |-> r2.pool, out |-> <<r1.out>> \o r2.out] :
                    r2 \in QueryFrom(r1.pool, images, k + 1)} :
                r1 \in QueryOne(pool, images[k])}

\* ImagePool.query(images): capacity 0 is a passthrough.
query(pool, images) ==
    IF pool.pool_size = 0
    THEN {[pool |-> pool, out |-> images]}
    ELSE QueryFrom(pool, images, 1)

(***************************************************************************)
(* Construction.                                                           *)
(***************************************************************************)

\* loss_names as __init__ builds it.
BaseLossNames == {"D_A", "G_A", "cycle_A", "idt_A", "D_B", "G_B", "cycle_B", "idt_B",
                  "idt_A_norm", "idt_B_norm", "cycle_A_norm", "cycle_B_norm"}

loss_names(o) ==
    IF o.use_rec_iou_error THEN BaseLossNames \cup {"iou_rec"} ELSE BaseLossNames

\* Every self.loss_* attribute the model ever assigns (loss_G is not logged).
LossAttrs == BaseLossNames \cup {"iou_rec", "G"}

\* The options the training object is built from.  The loss weights and the
\* masking flags do not steer the control flow of a training step; SpecLoss
\* draws them.
TrainOpts ==
    [lambda_identity : {0, 1},
     use_rec_iou_error : BOOLEAN,
     norm_loss : BOOLEAN,
     pool_size : 0..MaxPool,
     use_idt_masks : {FALSE}, use_rec_masks : {FALSE}, back_rec_iou_error : {FALSE},
     w_norm_idt : {1}, w_norm_cycle : {1}]

\* NewPools with a hard-coded capacity instead of opt.pool_size.
NewPools_Fixed(o) == [A |-> ImagePool(MaxCapacity + 1), B |-> ImagePool(MaxCapacity + 1)]

\* self.fake_A_pool = ImagePool(opt.pool_size); self.fake_B_pool likewise.
NewPools(o) == [A |-> ImagePool(o.pool_size), B |-> ImagePool(o.pool_size)]

Init ==
    /\ opt \in TrainOpts
    /\ pc = "idle"
    /\ frame = NoFrame
    /\ ncalls = 0
    /\ paramsG = 0
    /\ paramsD = 0
    /\ gradG = {}
    /\ gradD = {}
    /\ requires_grad_D = TRUE
    /\ fake_A = <<>>
    /\ fake_B = <<>>
    /\ norm_maps = "undef"
    /\ fake_A_pool = NewPools(opt).A
    /\ fake_B_pool = NewPools(opt).B
    /\ D_fake = <<>>
    /\ loss_attr = [x \in LossAttrs |-> "undef"]
    /\ T = "none"
    /\ loss = "none"

(***************************************************************************)
(* Helpers of the training steps.                                          *)
(***************************************************************************)

Age(s) == IF s = "fresh" THEN "stale" ELSE s

\* The batch generator g produces in call k from an input of n samples:
\* every forward pass makes new tensors.
Batch(g, k, n) == [i \in 1..n |-> <<g, k, i>>]

Assign(names) == [x \in LossAttrs |-> IF x \in names THEN "fresh" ELSE loss_attr[x]]

\* The loss attributes backward_G assigns when it runs to its end.
AssignedByBackwardG(o) ==
    {"G_A", "G_B", "cycle_A_norm", "cycle_A", "cycle_B_norm", "cycle_B", "G",
     "idt_A", "idt_B"}
    \cup (IF o.lambda_identity > 0 THEN {"idt_A_norm", "idt_B_norm"} ELSE {})
    \cup (IF o.use_rec_iou_error THEN {"iou_rec"} ELSE {})

\* The loss attributes backward_G has assigned when its first read of an
\* undefined self.norm_* raises: with lambda_identity > 0 that read is
\* norm_idt_A, before any assignment; otherwise idt_A = idt_B = 0 are set and
\* the read of norm_fake_B raises.
AssignedBeforeRaise(o) ==
    IF o.lambda_identity > 0 THEN {} ELSE {"idt_A", "idt_B"}

\* Entry of a call on the input of n samples that set_input stored.
Enter(op, iters, fr, n) ==
    /\ pc = "idle"
    /\ ncalls < MaxCalls
    /\ ncalls' = ncalls + 1
    /\ frame' = [op |-> op, iters |-> iters, fr |-> fr, n |-> n, err |-> "none",
                 G0 |-> paramsG, D0 |-> paramsD]
    /\ loss_attr' = [x \in LossAttrs |-> Age(loss_attr[x])]
    /\ norm_maps' = Age(norm_maps)
    /\ UNCHANGED <<opt, paramsG, paramsD, gradG, gradD, requires_grad_D, fake_A, fake_B,
                   fake_A_pool, fake_B_pool, D_fake, lossVars>>

Raise(err) ==
    /\ pc' = "raised"
    /\ frame' = [frame EXCEPT !.err = err]

\* forward(): the six generator outputs, and the eight normal maps only
\* under opt.norm_loss.
forward(next) ==
    /\ fake_B' = Batch("G_A", ncalls, frame.n)
    /\ fake_A' = Batch("G_B", ncalls, frame.n)
    /\ norm_maps' = IF opt.norm_loss THEN "fresh" ELSE norm_maps
    /\ pc' = next
    /\ UNCHANGED <<opt, frame, ncalls, paramsG, paramsD, gradG, gradD, requires_grad_D,
                   fake_A_pool, fake_B_pool, D_fake, loss_attr, lossVars>>

\* backward_G(back): reads the normal maps, assigns the generator losses and,
\* with back, backpropagates loss_G: into the generators, and into the
\* discriminators when their parameters require gradients.
backward_G(back, next) ==
    /\ IF norm_maps = "undef"
       THEN /\ Raise("AttributeError")
            /\ loss_attr' = Assign(AssignedBeforeRaise(opt))
            /\ UNCHANGED <<gradG, gradD>>
       ELSE /\ loss_attr' = Assign(AssignedByBackwardG(opt))
            /\ gradG' = IF back THEN gradG \cup {"G"} ELSE gradG
            /\ gradD' = IF back /\ requires_grad_D THEN gradD \cup {"G"} ELSE gradD
            /\ pc' = next
            /\ UNCHANGED frame
    /\ UNCHANGED <<opt, ncalls, paramsG, paramsD, requires_grad_D, fake_A, fake_B,
                   norm_maps, fake_A_pool, fake_B_pool, D_fake, lossVars>>

\* backward_D_basic ignoring back: loss_D.backward() in every call.
backward_D_basic_AlwaysBack(name, back) == gradD \cup {name}

\* backward_D_basic(netD, real, fake, back): the gradients of the
\* discriminators after it; loss_D.backward() only with back.
backward_D_basic(name, back) == IF back THEN gradD \cup {name} ELSE gradD

\* backward_D_A handing the other domain's fake to its pool.
backward_D_A_WrongFake(back, next) ==
    /\ \E r \in query(fake_B_pool, fake_A) :
          /\ fake_B_pool' = r.pool
          /\ D_fake' = r.out
    /\ gradD' = backward_D_basic("D_A", back)
    /\ loss_attr' = Assign({"D_A"})
    /\ pc' = next
    /\ UNCHANGED <<opt, frame, ncalls, paramsG, paramsD, gradG, requires_grad_D, fake_A,
                   fake_B, norm_maps, fake_A_pool, lossVars>>

\* backward_D_A(back): the fake comes out of fake_B_pool.
backward_D_A(back, next) ==
    /\ \E r \in query(fake_B_pool, fake_B) :
          /\ fake_B_pool' = r.pool
          /\ D_fake' = r.out
    /\ gradD' = backward_D_basic("D_A", back)
    /\ loss_attr' = Assign({"D_A"})
    /\ pc' = next
    /\ UNCHANGED <<opt, frame, ncalls, paramsG, paramsD, gradG, requires_grad_D, fake_A,
                   fake_B, norm_maps, fake_A_pool, lossVars>>

\* backward_D_B(back): the fake comes out of fake_A_pool.
backward_D_B(back, next) ==
    /\ \E r \in query(fake_A_pool, fake_A) :
          /\ fake_A_pool' = r.pool
          /\ D_fake' = r.out
    /\ gradD' = backward_D_basic("D_B", back)
    /\ loss_attr' = Assign({"D_B"})
    /\ pc' = next
    /\ UNCHANGED <<opt, frame, ncalls, paramsG, paramsD, gradG, requires_grad_D, fake_A,
                   fake_B, norm_maps, fake_B_pool, lossVars>>

(***************************************************************************)
(* optimize_parameters(iters, fr), line by line.                           *)
(***************************************************************************)

Call_optimize_parameters ==
    \E iters \in 0..MaxIters, fr \in 0..MaxFr, n \in 1..MaxBatch :
        /\ Enter("optimize_parameters", iters, fr, n)
        /\ pc' = "o_forward"

OptForward ==
    /\ pc = "o_forward"
    /\ forward("o_freeze_D")

\* OptFreezeD passing True: the discriminators stay trainable.
OptFreezeD_Unfrozen ==
    /\ pc = "o_freeze_D"
    /\ requires_grad_D' = TRUE
    /\ pc' = "o_zero_grad_G"
    /\ UNCHANGED <<opt, frame, ncalls, paramsG, paramsD, gradG, gradD, fake_A, fake_B,
                   norm_maps, fake_A_pool, fake_B_pool, D_fake, loss_attr, lossVars>>

\* self.set_requires_grad([self.netD_A, self.netD_B], False)
OptFreezeD ==
    /\ pc = "o_freeze_D"
    /\ requires_grad_D' = FALSE
    /\ pc' = "o_zero_grad_G"
    /\ UNCHANGED <<opt, frame, ncalls, paramsG, paramsD, gradG, gradD, fake_A, fake_B,
                   norm_maps, fake_A_pool, fake_B_pool, D_fake, loss_attr, lossVars>>

\* self.optimizer_G.zero_grad()
OptZeroGradG ==
    /\ pc = "o_zero_grad_G"
    /\ gradG' = {}
    /\ pc' = "o_backward_G"
    /\ UNCHANGED <<opt, frame, ncalls, paramsG, paramsD, gradD, requires_grad_D, fake_A,
                   fake_B, norm_maps, fake_A_pool, fake_B_pool, D_fake, loss_attr,
                   lossVars>>

OptBackwardG ==
    /\ pc = "o_backward_G"
    /\ backward_G(TRUE, "o_step_G")

\* OptStepG with the optimizer step left out.
OptStepG_Skipped ==
    /\ pc = "o_step_G"
    /\ pc' = "o_cadence"
    /\ UNCHANGED <<opt, frame, ncalls, paramsG, paramsD, gradG, gradD, requires_grad_D,
                   fake_A, fake_B, norm_maps, fake_A_pool, fake_B_pool, D_fake,
                   loss_attr, lossVars>>

\* self.optimizer_G.step()
OptStepG ==
    /\ pc = "o_step_G"
    /\ paramsG' = paramsG + 1
    /\ pc' = "o_cadence"
    /\ UNCHANGED <<opt, frame, ncalls, paramsD, gradG, gradD, requires_grad_D, fake_A,
                   fake_B, norm_maps, fake_A_pool, fake_B_pool, D_fake, loss_attr,
                   lossVars>>

\* OptCadence without its test: the discriminator phase in every call.
OptCadence_NoTest ==
    /\ pc = "o_cadence"
    /\ IF frame.fr = 0
       THEN Raise("ZeroDivisionError")
       ELSE /\ pc' = "o_unfreeze_D"
            /\ UNCHANGED frame
    /\ UNCHANGED <<opt, ncalls, paramsG, paramsD, gradG, gradD, requires_grad_D, fake_A,
                   fake_B, norm_maps, fake_A_pool, fake_B_pool, D_fake, loss_attr,
                   lossVars>>

\* OptCadence taking fr = 0 for "never": the step returns without a test.
OptCadence_ZeroSkips ==
    /\ pc = "o_cadence"
    /\ pc' = IF frame.fr # 0 /\ frame.iters % frame.fr = 0 THEN "o_unfreeze_D" ELSE "done"
    /\ UNCHANGED <<opt, frame, ncalls, paramsG, paramsD, gradG, gradD, requires_grad_D,
                   fake_A, fake_B, norm_maps, fake_A_pool, fake_B_pool, D_fake,
                   loss_attr, lossVars>>

\* if iters%fr == 0:
OptCadence ==
    /\ pc = "o_cadence"
    /\ IF frame.fr = 0
       THEN Raise("ZeroDivisionError")
       ELSE /\ pc' = IF frame.iters % frame.fr = 0 THEN "o_unfreeze_D" ELSE "done"
            /\ UNCHANGED frame
    /\ UNCHANGED <<opt, ncalls, paramsG, paramsD, gradG, gradD, requires_grad_D, fake_A,
                   fake_B, norm_maps, fake_A_pool, fake_B_pool, D_fake, loss_attr,
                   lossVars>>

\* OptUnfreezeD leaving the discriminators frozen.
OptUnfreezeD_Skipped ==
    /\ pc = "o_unfreeze_D"
    /\ pc' = "o_zero_grad_D"
    /\ UNCHANGED <<opt, frame, ncalls, paramsG, paramsD, gradG, gradD, requires_grad_D,
                   fake_A, fake_B, norm_maps, fake_A_pool, fake_B_pool, D_fake,
                   loss_attr, lossVars>>

\* self.set_requires_grad([self.netD_A, self.netD_B], True)
OptUnfreezeD ==
    /\ pc = "o_unfreeze_D"
    /\ requires_grad_D' = TRUE
    /\ pc' = "o_zero_grad_D"
    /\ UNCHANGED <<opt, frame, ncalls, paramsG, paramsD, gradG, gradD, fake_A, fake_B,
                   norm_maps, fake_A_pool, fake_B_pool, D_fake, loss_attr, lossVars>>

\* self.optimizer_D.zero_grad()
OptZeroGradD ==
    /\ pc = "o_zero_grad_D"
    /\ gradD' = {}
    /\ pc' = "o_backward_D_A"
    /\ UNCHANGED <<opt, frame, ncalls, paramsG, paramsD, gradG, requires_grad_D, fake_A,
                   fake_B, norm_maps, fake_A_pool, fake_B_pool, D_fake, loss_attr,
                   lossVars>>

OptBackwardDA ==
    /\ pc = "o_backward_D_A"
    /\ backward_D_A(TRUE, "o_backward_D_B")

OptBackwardDB ==
    /\ pc = "o_backward_D_B"
    /\ backward_D_B(TRUE, "o_step_D")

\* self.optimizer_D.step()
OptStepD ==
    /\ pc = "o_step_D"
    /\ paramsD' = paramsD + 1
    /\ D_fake' = <<>>
    /\ pc' = "done"
    /\ UNCHANGED <<opt, frame, ncalls, paramsG, gradG, gradD, requires_grad_D, fake_A,
                   fake_B, norm_maps, fake_A_pool, fake_B_pool, loss_attr, lossVars>>

(***************************************************************************)
(* calculate(), line by line.                                              *)
(***************************************************************************)

Call_calculate ==
    \E n \in 1..MaxBatch :
        /\ Enter("calculate", 0, 1, n)
        /\ pc' = "c_forward"

CalcForward ==
    /\ pc = "c_forward"
    /\ forward("c_backward_G")

CalcBackwardG ==
    /\ pc = "c_backward_G"
    /\ backward_G(FALSE, "c_backward_D_A")

CalcBackwardDA ==
    /\ pc = "c_backward_D_A"
    /\ backward_D_A(FALSE, "c_backward_D_B")

CalcBackwardDB ==
    /\ pc = "c_backward_D_B"
    /\ backward_D_B(FALSE, "done")

\* The call returns, or its exception leaves it: the locals are gone.
Return ==
    /\ pc \in {"done", "raised"}
    /\ pc' = "idle"
    /\ frame' = NoFrame
    /\ D_fake' = <<>>
    /\ UNCHANGED <<opt, ncalls, paramsG, paramsD, gradG, gradD, requires_grad_D, fake_A,
                   fake_B, norm_maps, fake_A_pool, fake_B_pool, loss_attr, lossVars>>

Next ==
    \/ Call_optimize_parameters
    \/ OptForward
    \/ OptFreezeD
    \/ OptZeroGradG
    \/ OptBackwardG
    \/ OptStepG
    \/ OptCadence
    \/ OptUnfreezeD
    \/ OptZeroGradD
    \/ OptBackwardDA
    \/ OptBackwardDB
    \/ OptStepD
    \/ Call_calculate
    \/ CalcForward
    \/ CalcBackwardG
    \/ CalcBackwardDA
    \/ CalcBackwardDB
    \/ Return

Spec == Init /\ [][Next]_vars

(***************************************************************************)
(* SpecPool: one pool under arbitrary sequences of queries.  A round is a  *)
(* forward pass that yields any batch, then the query of backward_D_A (a   *)
(* run on fake_B_pool) or of backward_D_B (a run on fake_A_pool).          *)
(***************************************************************************)

PoolOpts ==
    [lambda_identity : {1}, use_rec_iou_error : {FALSE}, norm_loss : {TRUE},
     pool_size : 0..MaxCapacity,
     use_idt_masks : {FALSE}, use_rec_masks : {FALSE}, back_rec_iou_error : {FALSE},
     w_norm_idt : {1}, w_norm_cycle : {1}]

\* The batches of 1..MaxQueryBatch samples with values in 1..NSamples.
QueryBatches == UNION {[1..n -> 1..NSamples] : n \in 1..MaxQueryBatch}

Tagged(g, b) == [i \in 1..Len(b) |-> <<g, b[i]>>]

InitPool ==
    /\ opt \in PoolOpts
    /\ pc \in {"p_forward_A", "p_forward_B"}
    /\ frame = NoFrame
    /\ ncalls = 0
    /\ paramsG = 0
    /\ paramsD = 0
    /\ gradG = {}
    /\ gradD = {}
    /\ requires_grad_D = TRUE
    /\ fake_A = <<>>
    /\ fake_B = <<>>
    /\ norm_maps = "fresh"
    /\ fake_A_pool = NewPools(opt).A
    /\ fake_B_pool = NewPools(opt).B
    /\ D_fake = <<>>
    /\ loss_attr = [x \in LossAttrs |-> "undef"]
    /\ T = "none"
    /\ loss = "none"

PoolForward ==
    /\ pc \in {"p_forward_A", "p_forward_B"}
    /\ \E b \in QueryBatches :
          /\ fake_B' = Tagged("G_A", b)
          /\ fake_A' = Tagged("G_B", b)
    /\ D_fake' = <<>>
    /\ pc' = IF pc = "p_forward_A" THEN "p_backward_D_A" ELSE "p_backward_D_B"
    /\ UNCHANGED <<opt, frame, ncalls, paramsG, paramsD, gradG, gradD, requires_grad_D,
                   norm_maps, fake_A_pool, fake_B_pool, loss_attr, lossVars>>

PoolBackwardDA ==
    /\ pc = "p_backward_D_A"
    /\ backward_D_A(FALSE, "p_forward_A")

PoolBackwardDB ==
    /\ pc = "p_backward_D_B"
    /\ backward_D_B(FALSE, "p_forward_B")

NextPool ==
    \/ PoolForward
    \/ PoolBackwardDA
    \/ PoolBackwardDB

SpecPool == InitPool /\ [][NextPool]_vars

(***************************************************************************)
(* SpecLoss: the values backward_G computes.  Depths and losses are        *)
(* integers in thousandths; a tensor is its NPix pixels.  The generators,  *)
(* the discriminators' GAN losses and the normal estimator are opaque:     *)
(* each is drawn from a small family of deterministic functions.           *)
(***************************************************************************)

lambda_A == 10
lambda_B == 10
MaskThreshold == -970
HoleThreshold == -990

Pixels == 1..NPix
DepthVals == {-1000, -995, 0}
NormVals == {0, 1}
DepthTensors == [Pixels -> DepthVals]

\* Pointwise stand-ins for netG_A and netG_B.
GenFns == {[v \in DepthVals |-> v],
           [v \in DepthVals |-> CASE v = -1000 -> -995 [] v = -995 -> 0 [] OTHER -> -1000]}

\* Stand-ins for SurfaceNormals: equal depths give equal normals.
NormalFns == {[v \in DepthVals |-> 0],
              [v \in DepthVals |-> IF v = 0 THEN 1 ELSE 0],
              [v \in DepthVals |-> IF v = -995 THEN 1 ELSE 0]}

\* The values criterionGAN(netD_A(...), True) and criterionGAN(netD_B(...), True).
GanLosses == {[A |-> 0, B |-> 0], [A |-> 250, B |-> 640]}

LossOpts ==
    [lambda_identity : {-1, 0, 1},
     use_rec_iou_error : BOOLEAN,
     norm_loss : {TRUE},
     pool_size : {0},
     use_idt_masks : BOOLEAN, use_rec_masks : BOOLEAN, back_rec_iou_error : BOOLEAN,
     w_norm_idt : {0, 1}, w_norm_cycle : {0, 1}]

Apply(f, t) == [i \in Pixels |-> f[t[i]]]

NoTensor == [i \in Pixels |-> 0]

\* forward() without opt.cat: the six generator outputs and the eight normal maps.
forward_tensors(t) ==
    LET fB == Apply(t.netG_A, t.syn_depth)
        fA == Apply(t.netG_B, t.real_depth)
        iA == Apply(t.netG_A, t.real_depth)
        iB == Apply(t.netG_B, t.syn_depth)
        rA == Apply(t.netG_B, fB)
        rB == Apply(t.netG_A, fA)
    IN  [t EXCEPT !.fake_B = fB, !.fake_A = fA, !.idt_A = iA, !.idt_B = iB,
                  !.rec_A = rA, !.rec_B = rB,
                  !.norm_syn = Apply(t.calc_norm, t.syn_depth),
                  !.norm_real = Apply(t.calc_norm, t.real_depth),
                  !.norm_fake_B = Apply(t.calc_norm, fB),
                  !.norm_fake_A = Apply(t.calc_norm, fA),
                  !.norm_rec_A = Apply(t.calc_norm, rA),
                  !.norm_rec_B = Apply(t.calc_norm, rB),
                  !.norm_idt_A = Apply(t.calc_norm, iA),
                  !.norm_idt_B = Apply(t.calc_norm, iB)]

RECURSIVE SumTo(_, _)
SumTo(f, n) == IF n = 0 THEN 0 ELSE f[n] + SumTo(f, n - 1)

Sum(f) == SumTo(f, NPix)

Abs(x) == IF x < 0 THEN -x ELSE x

\* torch.nn.L1Loss(): the mean absolute difference.
L1Loss(a, b) == Sum([i \in Pixels |-> Abs(a[i] - b[i])]) \div NPix

Mul(a, b) == [i \in Pixels |-> a[i] * b[i]]

\* torch.where(x < threshold, lo, hi)
Where(x, threshold, lo, hi) == [i \in Pixels |-> IF x[i] < threshold THEN lo ELSE hi]

NoLoss == [def |-> {}, val |-> [x \in LossAttrs |-> 0]]

\* self.loss_<x> = v for every x of the domain of new.
Set(l, new) ==
    [def |-> l.def \cup DOMAIN new,
     val |-> [x \in LossAttrs |-> IF x \in DOMAIN new THEN new[x] ELSE l.val[x]]]

\* The identity terms when the identity loss is on (lines 308-324).
IdentityTerms(o, t) ==
    LET lambda_idt == o.lambda_identity
        mask_real == Where(t.real_depth, MaskThreshold, 0, 1)
        mask_idn == Where(t.idt_A, MaskThreshold, 0, 1)
        m(x) == Mul(Mul(x, mask_real), mask_idn)
        idt_A_norm == IF o.use_idt_masks
                      THEN L1Loss(m(t.norm_idt_A), m(t.norm_real)) * lambda_B * lambda_idt
                      ELSE L1Loss(t.norm_idt_A, t.norm_real) * lambda_B * lambda_idt
        idt_A == IF o.use_idt_masks
                 THEN L1Loss(m(t.idt_A), m(t.real_depth)) * lambda_B * lambda_idt
                      + idt_A_norm * o.w_norm_idt
                 ELSE L1Loss(t.idt_A, t.real_depth) * lambda_B * lambda_idt
                      + idt_A_norm * o.w_norm_idt
        idt_B_norm == L1Loss(t.norm_idt_B, t.norm_syn) * lambda_A * lambda_idt
        idt_B == L1Loss(t.idt_B, t.syn_depth) * lambda_A * lambda_idt
                 + idt_B_norm * o.w_norm_idt
    IN  [idt_A_norm |-> idt_A_norm, idt_A |-> idt_A,
         idt_B_norm |-> idt_B_norm, idt_B |-> idt_B]

\* IdentityLosses testing lambda_idt for truth instead of lambda_idt > 0.
IdentityLosses_Truthy(o, t) ==
    IF o.lambda_identity # 0 THEN IdentityTerms(o, t) ELSE [idt_A |-> 0, idt_B |-> 0]

\* The identity terms (lines 305-327).
IdentityLosses(o, t) ==
    IF o.lambda_identity > 0 THEN IdentityTerms(o, t) ELSE [idt_A |-> 0, idt_B |-> 0]

\* The forward cycle term (lines 337-338).
CycleALosses(o, t) ==
    LET cycle_A_norm == L1Loss(t.norm_rec_A, t.norm_syn) * lambda_A
    IN  [cycle_A_norm |-> cycle_A_norm,
         cycle_A |-> L1Loss(t.rec_A, t.syn_depth) * lambda_A
                     + cycle_A_norm * o.w_norm_cycle]

\* The backward cycle term (lines 340-348).
CycleBLosses(o, t) ==
    LET mask_real == Where(t.real_depth, MaskThreshold, 0, 1)
        mask_rec == Where(t.rec_B, MaskThreshold, 0, 1)
        m(x) == Mul(Mul(x, mask_real), mask_rec)
        masked_norm == L1Loss(m(t.norm_rec_B), m(t.norm_real)) * lambda_B
        plain_norm == L1Loss(t.norm_rec_B, t.norm_real) * lambda_B
    IN  IF o.use_rec_masks
        THEN [cycle_B_norm |-> masked_norm,
              cycle_B |-> L1Loss(m(t.rec_B), m(t.real_depth)) * lambda_B
                          + masked_norm * o.w_norm_cycle]
        ELSE [cycle_B_norm |-> plain_norm,
              cycle_B |-> L1Loss(t.rec_B, t.real_depth) * lambda_B]

\* IouLoss as a plain overlap of pixel counts instead of summed negated depths.
IouLoss_PixelCount(t) ==
    LET real_holes == Where(t.real_depth, HoleThreshold, 1, 0)
        rec_holes == Where(t.rec_B, HoleThreshold, 1, 0)
        intersection == Sum(Mul(real_holes, rec_holes))
        union == Sum(rec_holes) + Sum(real_holes) - intersection
    IN  (IF union = 0 THEN 1000 ELSE (intersection * 1000) \div union) \div 2

\* The hole-overlap term (lines 354-367), for a batch of one sample.  SMOOTH
\* (1e-6) is below the resolution of thousandths: it decides the quotient
\* only when there is no hole at all, where iou = SMOOTH / SMOOTH = 1.
IouLoss(t) ==
    LET real_holes == Where(t.real_depth, HoleThreshold, 1, 0)
        rec_holes == Where(t.rec_B, HoleThreshold, 1, 0)
        mask_and == [i \in Pixels |->
                        IF real_holes[i] = 1 /\ rec_holes[i] = 1 THEN 1 ELSE 0]
        neg(x) == [i \in Pixels |-> -x[i]]
        intersection == Sum(Mul(neg(t.rec_B), mask_and))
        union == Sum(Mul(neg(t.rec_B), rec_holes))
                 + Sum(Mul(neg(t.real_depth), real_holes)) - intersection
        mean_iou == IF union = 0 /\ intersection = 0
                    THEN 1000
                    ELSE (intersection * 1000) \div union
    IN  mean_iou \div 2

\* GeneratorTotal adding the overlap term whenever it is computed.
GeneratorTotal_AlwaysIou(o, v) ==
    LET loss_G == v.G_A + v.G_B + v.cycle_A + v.cycle_B + v.idt_A + v.idt_B
    IN  IF o.use_rec_iou_error THEN loss_G + v.iou_rec ELSE loss_G

\* loss_G (lines 350 and 368-369).
GeneratorTotal(o, v) ==
    LET loss_G == v.G_A + v.G_B + v.cycle_A + v.cycle_B + v.idt_A + v.idt_B
    IN  IF o.use_rec_iou_error /\ o.back_rec_iou_error
        THEN loss_G + v.iou_rec
        ELSE loss_G

\* backward_G: the loss attributes after it.
backward_G_losses(o, t, l) ==
    LET l1 == Set(l, IdentityLosses(o, t))
        l2 == Set(l1, [G_A |-> t.gan.A, G_B |-> t.gan.B])
        l3 == Set(l2, CycleALosses(o, t))
        l4 == Set(l3, CycleBLosses(o, t))
        l5 == IF o.use_rec_iou_error THEN Set(l4, [iou_rec |-> IouLoss(t)]) ELSE l4
    IN  Set(l5, [G |-> GeneratorTotal(o, l5.val)])

LossInputs ==
    [syn_depth : DepthTensors, real_depth : DepthTensors,
     netG_A : GenFns, netG_B : GenFns, calc_norm : NormalFns, gan : GanLosses,
     fake_A : {NoTensor}, fake_B : {NoTensor}, idt_A : {NoTensor}, idt_B : {NoTensor},
     rec_A : {NoTensor}, rec_B : {NoTensor},
     norm_syn : {NoTensor}, norm_real : {NoTensor}, norm_fake_A : {NoTensor},
     norm_fake_B : {NoTensor}, norm_rec_A : {NoTensor}, norm_rec_B : {NoTensor},
     norm_idt_A : {NoTensor}, norm_idt_B : {NoTensor}]

InitLoss ==
    /\ opt \in LossOpts
    /\ pc = "l_forward"
    /\ frame = NoFrame
    /\ ncalls = 0
    /\ paramsG = 0
    /\ paramsD = 0
    /\ gradG = {}
    /\ gradD = {}
    /\ requires_grad_D = TRUE
    /\ fake_A = <<>>
    /\ fake_B = <<>>
    /\ norm_maps = "undef"
    /\ fake_A_pool = NewPools(opt).A
    /\ fake_B_pool = NewPools(opt).B
    /\ D_fake = <<>>
    /\ loss_attr = [x \in LossAttrs |-> "undef"]
    /\ T \in LossInputs
    /\ loss = NoLoss

LossForward ==
    /\ pc = "l_forward"
    /\ T' = forward_tensors(T)
    /\ pc' = "l_backward_G"
    /\ UNCHANGED <<opt, frame, ncalls, paramsG, paramsD, gradG, gradD, requires_grad_D,
                   fake_A, fake_B, norm_maps, fake_A_pool, fake_B_pool, D_fake,
                   loss_attr, loss>>

LossBackwardG ==
    /\ pc = "l_backward_G"
    /\ loss' = backward_G_losses(opt, T, loss)
    /\ pc' = "l_done"
    /\ UNCHANGED <<opt, frame, ncalls, paramsG, paramsD, gradG, gradD, requires_grad_D,
                   fake_A, fake_B, norm_maps, fake_A_pool, fake_B_pool, D_fake,
                   loss_attr, T>>

NextLoss ==
    \/ LossForward
    \/ LossBackwardG

SpecLoss == InitLoss /\ [][NextLoss]_vars

(***************************************************************************)
(* Properties of the training step (Spec).                                 *)
(***************************************************************************)

InOptimize == frame.op = "optimize_parameters"

InCalculate == frame.op = "calculate"

GeneratorPhase == {"o_zero_grad_G", "o_backward_G", "o_step_G"}

DiscriminatorPhase ==
    {"o_unfreeze_D", "o_zero_grad_D", "o_backward_D_A", "o_backward_D_B", "o_step_D"}

\* iters mod fr == 0, for fr >= 1.
Due == frame.fr >= 1 /\ frame.iters % frame.fr = 0

\* C1: with fr >= 1 the discriminator phase of a call runs if and only if
\* iters mod fr == 0: the call is inside the phase only when the test holds, a
\* call that returns has stepped the discriminators exactly when it holds,
\* and a call in which it fails never changes their parameters.
Thm_C1_Cadence ==
    InOptimize =>
        /\ pc \in DiscriminatorPhase => Due
        /\ pc = "done" => /\ frame.fr >= 1
                          /\ paramsD # frame.D0 <=> Due
                          /\ paramsD = frame.D0 + (IF Due THEN 1 ELSE 0)
        /\ (frame.fr >= 1 /\ ~Due) => paramsD = frame.D0

\* A call with iters = 2, fr = 3 returns with the discriminators untouched,
\* after an earlier call that updated them.
Wit_C1_Cadence ==
    /\ InOptimize /\ pc = "done"
    /\ frame.iters = 2 /\ frame.fr = 3
    /\ paramsD = frame.D0 /\ paramsD = 1

\* C2: inside a call the forward pass comes first, then the generator
\* update, then the discriminator update: in the generator phase the fakes
\* are those of this call's forward pass, in the discriminator phase the
\* generator step of this call is already applied, and the discriminators
\* are never stepped in a call that did not step the generators.
Thm_C2_PhaseOrder ==
    InOptimize =>
        /\ pc \in GeneratorPhase =>
              /\ fake_B = Batch("G_A", ncalls, frame.n)
              /\ paramsG = frame.G0
              /\ paramsD = frame.D0
        /\ pc \in DiscriminatorPhase =>
              /\ paramsG = frame.G0 + 1
              /\ paramsD = frame.D0
        /\ paramsD # frame.D0 => paramsG = frame.G0 + 1

\* The discriminator gradients are about to be zeroed, the generator step
\* of the same call being applied.
Wit_C2_PhaseOrder ==
    /\ InOptimize /\ pc = "o_zero_grad_D"
    /\ paramsG = frame.G0 + 1 /\ paramsD = frame.D0

\* C3: from set_requires_grad(False) to the end of optimizer_G.step the
\* discriminators are frozen, no gradient of the generator loss reaches
\* them, and their parameters are those of the start of the call.
Thm_C3_FrozenDuringG ==
    (InOptimize /\ pc \in GeneratorPhase \cup {"o_cadence"}) =>
        /\ ~requires_grad_D
        /\ paramsD = frame.D0
        /\ "G" \notin gradD

\* The generator phase of a call that follows a call which unfroze and
\* updated the discriminators.
Wit_C3_FrozenDuringG ==
    /\ InOptimize /\ pc = "o_cadence"
    /\ ncalls = 2 /\ paramsD = 1 /\ ~requires_grad_D /\ paramsG = frame.G0 + 1

Cex_C5_PoolsOnlyInDPhase ==
    [][(fake_A_pool' # fake_A_pool \/ fake_B_pool' # fake_B_pool) =>
          (InOptimize /\ pc \in {"o_backward_D_A", "o_backward_D_B"})]_vars

\* C9: when a call returns, every name of loss_names has a value computed in
\* that call.
Cex_C9_LossesFresh ==
    (pc = "done" /\ frame.err = "none") =>
        \A x \in loss_names(opt) : loss_attr[x] = "fresh"

(***************************************************************************)
(* Properties of the pools (SpecPool).                                     *)
(***************************************************************************)

AfterQuery == pc \in {"p_forward_A", "p_forward_B"} /\ fake_B # <<>>

Incoming == IF pc = "p_forward_A" THEN fake_B ELSE fake_A

Min(a, b) == IF a < b THEN a ELSE b

\* What a query of batch into a pool holding images does for certain, the
\* pool holding fewer than pool_size samples: if the whole batch fits it is
\* returned unchanged and appended; otherwise the samples that still fit are
\* returned unchanged and the pool ends full.
RoomRule(images, batch, images2, out) ==
    LET room == opt.pool_size - Len(images)
        k == Min(room, Len(batch))
    IN  room > 0 =>
           /\ Len(out) = Len(batch)
           /\ SubSeq(out, 1, k) = SubSeq(batch, 1, k)
           /\ Len(images2) = Len(images) + k
           /\ Len(batch) <= room => (out = batch /\ images2 = images \o batch)

LossDone == pc = "l_done"

\* backward_G assigns the attributes the training model takes it to assign.
AssignedAgrees == LossDone => loss.def = AssignedByBackwardG(opt)

\* C8: with lambda_identity <= 0 the terms idt_A and idt_B are exactly 0 and
\* loss_G is the sum of the other terms, whatever the other options.
Thm_C8_IdentityOff ==
    (LossDone /\ opt.lambda_identity <= 0) =>
        /\ {"idt_A", "idt_B"} \subseteq loss.def
        /\ loss.val["idt_A"] = 0
        /\ loss.val["idt_B"] = 0
        /\ loss.val["G"] = loss.val["G_A"] + loss.val["G_B"] + loss.val["cycle_A"]
                           + loss.val["cycle_B"]
                           + (IF opt.use_rec_iou_error /\ opt.back_rec_iou_error
                              THEN loss.val["iou_rec"] ELSE 0)

\* The identity loss is off, the identity outputs differ from their inputs,
\* masks and normal weights are on.
Wit_C8_IdentityOff ==
    /\ LossDone /\ opt.lambda_identity = 0
    /\ opt.use_idt_masks /\ opt.w_norm_idt = 1
    /\ T.idt_A # T.real_depth /\ T.idt_B # T.syn_depth
    /\ loss.val["G"] > 0

\* C10: both cycle terms include their normal sub-term, for both values of
\* use_rec_masks (the operands of cycle_B masked under use_rec_masks).
Cex_C10_CycleNormals ==
    LossDone =>
        LET mask_real == Where(T.real_depth, MaskThreshold, 0, 1)
            mask_rec == Where(T.rec_B, MaskThreshold, 0, 1)
            m(x) == IF opt.use_rec_masks THEN Mul(Mul(x, mask_real), mask_rec) ELSE x
        IN  /\ loss.val["cycle_A_norm"] = L1Loss(T.norm_rec_A, T.norm_syn) * lambda_A
            /\ loss.val["cycle_A"] = L1Loss(T.rec_A, T.syn_depth) * lambda_A
                                     + opt.w_norm_cycle * loss.val["cycle_A_norm"]
            /\ loss.val["cycle_B_norm"] = L1Loss(m(T.norm_rec_B), m(T.norm_real)) * lambda_B
            /\ loss.val["cycle_B"] = L1Loss(m(T.rec_B), m(T.real_depth)) * lambda_B
                                     + opt.w_norm_cycle * loss.val["cycle_B_norm"]

\* x with the 0/1 masks of the two reference tensors p and q applied.
Masked(x, p, q) ==
    Mul(Mul(x, Where(p, MaskThreshold, 0, 1)), Where(q, MaskThreshold, 0, 1))

\* C11: under use_idt_masks both identity terms, and under use_rec_masks both
\* cycle terms, are computed with their normal sub-terms on operands
\* multiplied by the masks of their two reference tensors.
Cex_C11_MasksCoverGroup ==
    LossDone =>
        /\ (opt.use_idt_masks /\ opt.lambda_identity > 0) =>
              /\ loss.val["idt_A_norm"] =
                    L1Loss(Masked(T.norm_idt_A, T.real_depth, T.idt_A),
                           Masked(T.norm_real, T.real_depth, T.idt_A))
                    * lambda_B * opt.lambda_identity
              /\ loss.val["idt_A"] =
                    L1Loss(Masked(T.idt_A, T.real_depth, T.idt_A),
                           Masked(T.real_depth, T.real_depth, T.idt_A))
                    * lambda_B * opt.lambda_identity
                    + loss.val["idt_A_norm"] * opt.w_norm_idt
              /\ loss.val["idt_B_norm"] =
                    L1Loss(Masked(T.norm_idt_B, T.syn_depth, T.idt_B),
                           Masked(T.norm_syn, T.syn_depth, T.idt_B))
                    * lambda_A * opt.lambda_identity
              /\ loss.val["idt_B"] =
                    L1Loss(Masked(T.idt_B, T.syn_depth, T.idt_B),
                           Masked(T.syn_depth, T.syn_depth, T.idt_B))
                    * lambda_A * opt.lambda_identity
                    + loss.val["idt_B_norm"] * opt.w_norm_idt
        /\ opt.use_rec_masks =>
              /\ loss.val["cycle_A_norm"] =
                    L1Loss(Masked(T.norm_rec_A, T.syn_depth, T.rec_A),
                           Masked(T.norm_syn, T.syn_depth, T.rec_A)) * lambda_A
              /\ loss.val["cycle_A"] =
                    L1Loss(Masked(T.rec_A, T.syn_depth, T.rec_A),
                           Masked(T.syn_depth, T.syn_depth, T.rec_A)) * lambda_A
                    + loss.val["cycle_A_norm"] * opt.w_norm_cycle
              /\ loss.val["cycle_B_norm"] =
                    L1Loss(Masked(T.norm_rec_B, T.real_depth, T.rec_B),
                           Masked(T.norm_real, T.real_depth, T.rec_B)) * lambda_B
              /\ loss.val["cycle_B"] =
                    L1Loss(Masked(T.rec_B, T.real_depth, T.rec_B),
                           Masked(T.real_depth, T.real_depth, T.rec_B)) * lambda_B
                    + loss.val["cycle_B_norm"] * opt.w_norm_cycle

\* Every pixel of real_depth and of rec_B is a hole (below -0.99).
AllHoles ==
    \A i \in Pixels : T.real_depth[i] < HoleThreshold /\ T.rec_B[i] < HoleThreshold

NegSum(x) == Sum([i \in Pixels |-> -x[i]])

\* C12 as stated: with use_rec_iou_error, real_depth and rec_B entirely below
\* -0.99 give iou_rec = 1.0.
Cex_C12_IouIsOne ==
    (LossDone /\ opt.use_rec_iou_error /\ AllHoles) => loss.val["iou_rec"] = 1000

\* C12, amended: with use_rec_iou_error, real_depth and rec_B entirely below
\* -0.99 give iou_rec = 0.5 * sum(-rec_B) / sum(-real_depth), which is 0.5
\* when the two tensors are equal.
Thm_C12_IouAllHoles ==
    (LossDone /\ opt.use_rec_iou_error /\ AllHoles) =>
        /\ loss.val["iou_rec"] = ((NegSum(T.rec_B) * 1000) \div NegSum(T.real_depth)) \div 2
        /\ T.rec_B = T.real_depth => loss.val["iou_rec"] = 500

\* All pixels are holes, the reconstruction is deeper than the real depth
\* and the term is above 0.5.
Wit_C12_IouAllHoles ==
    /\ LossDone /\ opt.use_rec_iou_error /\ AllHoles
    /\ T.rec_B # T.real_depth
    /\ loss.val["iou_rec"] > 500

\* C13: loss_G is G_A + G_B + cycle_A + cycle_B + idt_A + idt_B, plus iou_rec
\* exactly when use_rec_iou_error and back_rec_iou_error are both set; with
\* use_rec_iou_error alone iou_rec is still assigned and loss_G is what it is
\* with the option off.
Thm_C13_GeneratorTotal ==
    LossDone =>
        LET base == loss.val["G_A"] + loss.val["G_B"] + loss.val["cycle_A"]
                    + loss.val["cycle_B"] + loss.val["idt_A"] + loss.val["idt_B"]
            off == backward_G_losses([opt EXCEPT !.use_rec_iou_error = FALSE], T, NoLoss)
        IN  /\ loss.val["G"] = base + (IF opt.use_rec_iou_error /\ opt.back_rec_iou_error
                                       THEN loss.val["iou_rec"] ELSE 0)
            /\ opt.use_rec_iou_error =>
                  /\ "iou_rec" \in loss.def
                  /\ loss.val["iou_rec"] = IouLoss(T)
            /\ ~opt.use_rec_iou_error => "iou_rec" \notin loss.def
            /\ ~(opt.use_rec_iou_error /\ opt.back_rec_iou_error) =>
                  loss.val["G"] = off.val["G"]

\* The overlap term is computed and positive but kept out of loss_G, the
\* identity terms being on.
Wit_C13_GeneratorTotal ==
    /\ LossDone /\ opt.use_rec_iou_error /\ ~opt.back_rec_iou_error
    /\ opt.lambda_identity = 1
    /\ loss.val["iou_rec"] > 0 /\ loss.val["idt_A"] > 0
    /\ loss.val["G"] = loss.val["G_A"] + loss.val["G_B"] + loss.val["cycle_A"]
                       + loss.val["cycle_B"] + loss.val["idt_A"] + loss.val["idt_B"]

(***************************************************************************)
(* SpecConfig: the configuration selectors of networks_for_SR, called one  *)
(* at a time with recognized and unrecognized values.  The outcome of a    *)
(* call is kept in frame: whether it returned or raised, the exception,    *)
(* the option values its message names, and what it handed back.           *)
(***************************************************************************)

MaxModules == 2    \* SpecConfig: modules of a network handed to init_weights

NormTypes == {"batch", "instance", "group", "none"}
LrPolicies == {"linear", "step", "plateau", "cosine"}
InitTypes == {"normal", "xavier", "kaiming", "orthogonal"}
NetTypes == {"EncoderDepth", "DenseNet", "unet_128"}

\* The values a caller may pass: the recognized ones, a misspelt one, and for
\* the architecture also a name the docstring of define_net lists.
ConfigOpts ==
    [norm : NormTypes \cup {"layer"},
     lr_policy : LrPolicies \cup {"exponential"},
     init_type : InitTypes \cup {"uniform"},
     net_type : NetTypes \cup {"resnet_9blocks", "vgg"}]

\* Class names of the modules net.apply visits; the networks of the file
\* all hold convolutions.
ModuleClasses == {"Conv2d", "BatchNorm2d", "ReLU"}

Nets ==
    {net \in UNION {[1..n -> ModuleClasses] : n \in 1..MaxModules} :
        \E i \in 1..Len(net) : net[i] = "Conv2d"}

Returned(value) == [outcome |-> "returned", exc |-> "none", names |-> {}, value |-> value]

Raised(exc, names) == [outcome |-> "raised", exc |-> exc, names |-> names, value |-> "none"]

\* get_norm_layer(norm_type)
get_norm_layer(norm_type) ==
    IF norm_type \in NormTypes
    THEN Returned("norm_layer")
    ELSE Raised("NotImplementedError", {norm_type})

\* get_scheduler(optimizer, opt): the else branch returns the exception
\* object instead of raising it.
get_scheduler(o) ==
    IF o.lr_policy \in LrPolicies
    THEN Returned("scheduler")
    ELSE Returned("NotImplementedError")

\* init_func(m) inside init_weights: TRUE when it raises on module m.
init_func_raises(m, init_type) ==
    /\ m \in {"Conv2d", "Linear"}
    /\ init_type \notin InitTypes

\* init_weights(net, init_type): net.apply(init_func).
init_weights(net, init_type) ==
    IF \E i \in 1..Len(net) : init_func_raises(net[i], init_type)
    THEN Raised("NotImplementedError", {init_type})
    ELSE Returned("None")

\* init_net(net, init_type) without GPUs.
init_net(net, init_type) ==
    LET r == init_weights(net, init_type)
    IN  IF r.outcome = "raised" THEN r ELSE Returned("net")

\* define_net(..., net_type, norm, ..., init_type, ...): the generator
\* classes and the name netG are not defined in the module, so every branch
\* after get_norm_layer ends in a NameError naming that identifier.
define_net(net_type, norm, init_type) ==
    LET r == get_norm_layer(norm)
    IN  IF r.outcome = "raised" THEN r
        ELSE IF net_type \in {"EncoderDepth", "DenseNet"}
             THEN Raised("NameError", {"ResnetGenerator"})
        ELSE IF net_type = "unet_128"
             THEN Raised("NameError", {"UnetGenerator"})
        ELSE Raised("NameError", {"netG"})

InitConfig ==
    /\ opt \in ConfigOpts
    /\ pc = "cfg_idle"
    /\ frame = NoFrame
    /\ ncalls = 0
    /\ paramsG = 0
    /\ paramsD = 0
    /\ gradG = {}
    /\ gradD = {}
    /\ requires_grad_D = TRUE
    /\ fake_A = <<>>
    /\ fake_B = <<>>
    /\ norm_maps = "undef"
    /\ fake_A_pool = ImagePool(0)
    /\ fake_B_pool = ImagePool(0)
    /\ D_fake = <<>>
    /\ loss_attr = [x \in LossAttrs |-> "undef"]
    /\ T = "none"
    /\ loss = "none"

\* A call of selector op given the option values in given, ending as r.
ConfigCall(op, given, unrecognized, r) ==
    /\ pc' = "cfg_done"
    /\ frame' = [op |-> op, given |-> given, unrecognized |-> unrecognized, result |-> r]
    /\ UNCHANGED <<opt, ncalls, paramsG, paramsD, gradG, gradD, requires_grad_D, fake_A,
                   fake_B, norm_maps, fake_A_pool, fake_B_pool, D_fake, loss_attr,
                   lossVars>>

Call_get_norm_layer ==
    /\ pc = "cfg_idle"
    /\ ConfigCall("get_norm_layer", {opt.norm}, {opt.norm} \ NormTypes,
                  get_norm_layer(opt.norm))

Call_get_scheduler ==
    /\ pc = "cfg_idle"
    /\ ConfigCall("get_scheduler", {opt.lr_policy}, {opt.lr_policy} \ LrPolicies,
                  get_scheduler(opt))

Call_init_weights ==
    /\ pc = "cfg_idle"
    /\ \E net \in Nets :
          ConfigCall("init_weights", {opt.init_type}, {opt.init_type} \ InitTypes,
                     init_weights(net, opt.init_type))

Call_define_net ==
    /\ pc = "cfg_idle"
    /\ ConfigCall("define_net", {opt.net_type, opt.norm},
                  ({opt.net_type} \ NetTypes) \cup ({opt.norm} \ NormTypes),
                  define_net(opt.net_type, opt.norm, opt.init_type))

ConfigReturn ==
    /\ pc = "cfg_done"
    /\ pc' = "cfg_idle"
    /\ frame' = NoFrame
    /\ UNCHANGED <<opt, ncalls, paramsG, paramsD, gradG, gradD, requires_grad_D, fake_A,
                   fake_B, norm_maps, fake_A_pool, fake_B_pool, D_fake, loss_attr,
                   lossVars>>

NextConfig ==
    \/ Call_get_norm_layer
    \/ Call_get_scheduler
    \/ Call_init_weights
    \/ Call_define_net
    \/ ConfigReturn

SpecConfig == InitConfig /\ [][NextConfig]_vars

\* C14: a selector given an unrecognized value ends in a raised error whose
\* message names the bad value, and hands nothing back to the caller.
Cex_C14_UnrecognizedRaises ==
    (pc = "cfg_done" /\ frame.unrecognized # {}) =>
        /\ frame.result.outcome = "raised"
        /\ frame.result.names \cap frame.unrecognized # {}
        /\ frame.result.value = "none"

(***************************************************************************)
(* SpecForward: set_input and the generator calls of forward(), statement  *)
(* by statement.  A tensor is known by the attribute or input field it was *)
(* stored under and the pass (or batch) that made it; a generator output   *)
(* also records the call that made it: the network and the depth and image *)
(* it was given.                                                           *)
(***************************************************************************)

MaxPasses == 2     \* SpecForward: forward passes of a run
NBatches == 2      \* SpecForward: distinct input batches

ForwardOpts == [cat : BOOLEAN, norm_loss : BOOLEAN, direction : {"AtoB", "BtoA"}]

NoId == <<"none", 0>>

NoCall == [net |-> "none", depth |-> NoId, image |-> NoId]

Tensor(id, call) == [id |-> id, call |-> call]

Unset == Tensor(NoId, NoCall)

ForwardAttrs == {"syn_depth", "syn_image", "real_depth", "real_image",
                 "fake_B", "fake_A", "idt_A", "idt_B", "rec_A", "rec_B"}

\* The generator input without opt.cat: the depth alone.
DepthOnly(depth) == [depth |-> depth.id, image |-> NoId]

\* torch.cat([depth, image], dim=1)
Cat(depth, image) == [depth |-> depth.id, image |-> image.id]

\* self.<name> = net(input), in the pass in progress.
Generated(name, net, input) ==
    Tensor(<<name, ncalls>>, [net |-> net, depth |-> input.depth, image |-> input.image])

InitForward ==
    /\ opt \in ForwardOpts
    /\ pc = "f_idle"
    /\ frame = NoFrame
    /\ ncalls = 0
    /\ paramsG = 0
    /\ paramsD = 0
    /\ gradG = {}
    /\ gradD = {}
    /\ requires_grad_D = TRUE
    /\ fake_A = <<>>
    /\ fake_B = <<>>
    /\ norm_maps = "undef"
    /\ fake_A_pool = ImagePool(0)
    /\ fake_B_pool = ImagePool(0)
    /\ D_fake = <<>>
    /\ loss_attr = [x \in LossAttrs |-> "undef"]
    /\ T = [x \in ForwardAttrs |-> Unset]
    /\ loss = "none"

\* What a statement of forward() leaves alone.
ForwardFrame ==
    UNCHANGED <<opt, frame, paramsG, paramsD, gradG, gradD, requires_grad_D, fake_A,
                fake_B, fake_A_pool, fake_B_pool, D_fake, loss_attr, loss>>

\* set_input(input): the batch b of the loader, its fields taken by direction.
FwdSetInput ==
    /\ pc = "f_idle"
    /\ ncalls < MaxPasses
    /\ \E b \in 1..NBatches :
          LET AtoB == opt.direction = "AtoB"
          IN  T' = [T EXCEPT
                      !.syn_image = Tensor(<<IF AtoB THEN "A_i" ELSE "B_i", b>>, NoCall),
                      !.real_image = Tensor(<<IF AtoB THEN "B_i" ELSE "A_i", b>>, NoCall),
                      !.syn_depth = Tensor(<<IF AtoB THEN "A_d" ELSE "B_d", b>>, NoCall),
                      !.real_depth = Tensor(<<IF AtoB THEN "B_d" ELSE "A_d", b>>, NoCall)]
    /\ ncalls' = ncalls + 1
    /\ norm_maps' = Age(norm_maps)
    /\ pc' = "f_fake"
    /\ ForwardFrame

\* forward(), lines 196-201.
FwdFake ==
    /\ pc = "f_fake"
    /\ T' = IF opt.cat
            THEN [T EXCEPT
                    !.fake_B = Generated("fake_B", "netG_A", Cat(T.syn_depth, T.syn_image)),
                    !.fake_A = Generated("fake_A", "netG_B", Cat(T.real_depth, T.real_image))]
            ELSE [T EXCEPT
                    !.fake_B = Generated("fake_B", "netG_A", DepthOnly(T.syn_depth)),
                    !.fake_A = Generated("fake_A", "netG_B", DepthOnly(T.real_depth))]
    /\ pc' = "f_idt"
    /\ UNCHANGED <<ncalls, norm_maps>>
    /\ ForwardFrame

\* forward(), lines 204-209.
FwdIdt ==
    /\ pc = "f_idt"
    /\ T' = IF opt.cat
            THEN [T EXCEPT
                    !.idt_A = Generated("idt_A", "netG_A", Cat(T.real_depth, T.real_image)),
                    !.idt_B = Generated("idt_B", "netG_B", Cat(T.syn_depth, T.syn_image))]
            ELSE [T EXCEPT
                    !.idt_A = Generated("idt_A", "netG_A", DepthOnly(T.real_depth)),
                    !.idt_B = Generated("idt_B", "netG_B", DepthOnly(T.syn_depth))]
    /\ pc' = "f_rec"
    /\ UNCHANGED <<ncalls, norm_maps>>
    /\ ForwardFrame

\* FwdRec pairing each reconstruction with the image of the other domain.
FwdRec_SwappedImages ==
    /\ pc = "f_rec"
    /\ T' = IF opt.cat
            THEN [T EXCEPT
                    !.rec_A = Generated("rec_A", "netG_B", Cat(T.fake_B, T.real_image)),
                    !.rec_B = Generated("rec_B", "netG_A", Cat(T.fake_A, T.syn_image))]
            ELSE [T EXCEPT
                    !.rec_A = Generated("rec_A", "netG_B", DepthOnly(T.fake_B)),
                    !.rec_B = Generated("rec_B", "netG_A", DepthOnly(T.fake_A))]
    /\ pc' = "f_normals"
    /\ UNCHANGED <<ncalls, norm_maps>>
    /\ ForwardFrame

\* forward(), lines 212-217.
FwdRec ==
    /\ pc = "f_rec"
    /\ T' = IF opt.cat
            THEN [T EXCEPT
                    !.rec_A = Generated("rec_A", "netG_B", Cat(T.fake_B, T.syn_image)),
                    !.rec_B = Generated("rec_B", "netG_A", Cat(T.fake_A, T.real_image))]
            ELSE [T EXCEPT
                    !.rec_A = Generated("rec_A", "netG_B", DepthOnly(T.fake_B)),
                    !.rec_B = Generated("rec_B", "netG_A", DepthOnly(T.fake_A))]
    /\ pc' = "f_normals"
    /\ UNCHANGED <<ncalls, norm_maps>>
    /\ ForwardFrame

\* forward(), lines 221-230: the eight normal maps, under opt.norm_loss only.
FwdNormals ==
    /\ pc = "f_normals"
    /\ norm_maps' = IF opt.norm_loss THEN "fresh" ELSE norm_maps
    /\ pc' = "f_idle"
    /\ UNCHANGED <<ncalls, T>>
    /\ ForwardFrame

NextForward ==
    \/ FwdSetInput
    \/ FwdFake
    \/ FwdIdt
    \/ FwdRec
    \/ FwdNormals

SpecForward == InitForward /\ [][NextForward]_vars

\* The call the claim expects: net on depth, with image exactly under cat.
Expected(net, depth, image) ==
    [net |-> net, depth |-> depth.id, image |-> IF opt.cat THEN image.id ELSE NoId]

FMax == 16         \* the largest finite value of the number format

PosInf == FMax + 1

NegInf == -(FMax + 1)

NaN == FMax + 2

\* An element of torch.empty_like(f) that was never written.
Uninit == FMax + 3

IsFinite(x) == -FMax <= x /\ x <= FMax

\* a - b on finite values.
FSub(a, b) ==
    IF a - b > FMax THEN PosInf
    ELSE IF a - b < -FMax THEN NegInf
    ELSE a - b

\* a / 2. on a finite value or an infinity.
FHalf(a) == IF IsFinite(a) THEN a \div 2 ELSE a

\* -a
FNeg(a) ==
    IF a = NaN THEN NaN
    ELSE IF a = PosInf THEN NegInf
    ELSE IF a = NegInf THEN PosInf
    ELSE -a

Rows(f) == Len(f)

Cols(f) == Len(f[1])

\* f.shape[axis]
AxisLen(f, axis) == IF axis = 2 THEN Rows(f) ELSE Cols(f)

\* The element of f at index i (from 0) along axis in the line of (r, c).
Along(f, axis, r, c, i) == IF axis = 2 THEN f[i + 1][c] ELSE f[r][i + 1]

\* slice(None) bounds.
NoneIdx == -1000

\* The indices (from 0) slice(start, stop) selects on an axis of length L.
SliceIndices(L, start, stop) ==
    LET norm(x, dflt) == IF x = NoneIdx THEN dflt
                         ELSE IF x < 0 THEN (IF x + L < 0 THEN 0 ELSE x + L)
                         ELSE IF x > L THEN L ELSE x
        lo == norm(start, 0)
        hi == norm(stop, L)
    IN  [k \in 1..(IF hi > lo THEN hi - lo ELSE 0) |-> lo + k - 1]

\* gradient_for_normals with forward differences at every index but the last.
gradient_for_normals_Forward(f, axis) ==
    LET L == AxisLen(f, axis)
    IN  [r \in 1..Rows(f) |-> [c \in 1..Cols(f) |->
            LET i == IF axis = 2 THEN r - 1 ELSE c - 1
            IN  IF i < L - 1
                THEN FSub(Along(f, axis, r, c, i + 1), Along(f, axis, r, c, i))
                ELSE FSub(Along(f, axis, r, c, i), Along(f, axis, r, c, i - 1))]]

\* gradient_for_normals(f, axis) for a float32 f with at least two elements
\* along axis: the three slice assignments into out, in order.
gradient_for_normals(f, axis) ==
    LET L == AxisLen(f, axis)
        slice1 == SliceIndices(L, 1, -1)
        slice2 == SliceIndices(L, NoneIdx, -2)
        slice4 == SliceIndices(L, 2, NoneIdx)
        pos(i) == CHOOSE k \in 1..Len(slice1) : slice1[k] = i
        idx(r, c) == IF axis = 2 THEN r - 1 ELSE c - 1
        empty == [r \in 1..Rows(f) |-> [c \in 1..Cols(f) |-> Uninit]]
        interior == [r \in 1..Rows(f) |-> [c \in 1..Cols(f) |->
                        IF \E k \in 1..Len(slice1) : slice1[k] = idx(r, c)
                        THEN FHalf(FSub(Along(f, axis, r, c, slice4[pos(idx(r, c))]),
                                        Along(f, axis, r, c, slice2[pos(idx(r, c))])))
                        ELSE empty[r][c]]]
        first == [r \in 1..Rows(f) |-> [c \in 1..Cols(f) |->
                        IF idx(r, c) = 0
                        THEN FSub(Along(f, axis, r, c, 1), Along(f, axis, r, c, 0))
                        ELSE interior[r][c]]]
    IN  [r \in 1..Rows(f) |-> [c \in 1..Cols(f) |->
            IF idx(r, c) = L - 1
            THEN FSub(Along(f, axis, r, c, L - 1), Along(f, axis, r, c, L - 2))
            ELSE first[r][c]]]

(***************************************************************************)
(* SpecGradient: gradient_for_normals on planes of small even values,     *)
(* along either axis.                                                      *)
(***************************************************************************)

MaxLen == 3        \* SpecGradient: length of the axis differentiated
NLines == 2        \* SpecGradient: lines along that axis

GradVals == {0, 2, 4}

\* The planes with L elements along axis and K lines.
Planes(axis, L, K, vals) ==
    IF axis = 2 THEN [1..L -> [1..K -> vals]] ELSE [1..K -> [1..L -> vals]]

GradInputs ==
    UNION {UNION {UNION {{[axis |-> axis, f |-> f] : f \in Planes(axis, L, K, GradVals)} :
                           K \in 1..NLines} : L \in 2..MaxLen} : axis \in {2, 3}}

InitGradient ==
    /\ opt \in [norm_loss : {TRUE}]
    /\ pc = "g_call"
    /\ \E x \in GradInputs :
          /\ frame = [op |-> "gradient_for_normals", f |-> x.f, axis |-> x.axis]
          /\ T = [f |-> x.f, out |-> <<>>]
    /\ ncalls = 0
    /\ paramsG = 0
    /\ paramsD = 0
    /\ gradG = {}
    /\ gradD = {}
    /\ requires_grad_D = TRUE
    /\ fake_A = <<>>
    /\ fake_B = <<>>
    /\ norm_maps = "undef"
    /\ fake_A_pool = ImagePool(0)
    /\ fake_B_pool = ImagePool(0)
    /\ D_fake = <<>>
    /\ loss_attr = [x \in LossAttrs |-> "undef"]
    /\ loss = "none"

GradApply ==
    /\ pc = "g_call"
    /\ T' = [T EXCEPT !.out = gradient_for_normals(T.f, frame.axis)]
    /\ pc' = "g_done"
    /\ UNCHANGED <<opt, frame, ncalls, paramsG, paramsD, gradG, gradD, requires_grad_D,
                   fake_A, fake_B, norm_maps, fake_A_pool, fake_B_pool, D_fake,
                   loss_attr, loss>>

NextGradient == GradApply

SpecGradient == InitGradient /\ [][NextGradient]_vars

\* The line of plane g through (r, c) along the axis of the call, as a
\* sequence indexed from 1.
LineOf(g, r, c) ==
    [i \in 1..AxisLen(g, frame.axis) |-> Along(g, frame.axis, r, c, i - 1)]

\* C18: along an axis of length L >= 2 the result is the central difference
\* at interior indices and the one-sided difference at both ends, line by
\* line, with the input untouched; a constant line gives zeros and a linear
\* ramp its slope at every index.
Thm_C18_FiniteDifferences ==
    pc = "g_done" =>
        /\ T.f = frame.f
        /\ \A r \in 1..Rows(T.f) : \A c \in 1..Cols(T.f) :
              LET f == LineOf(T.f, r, c)
                  out == LineOf(T.out, r, c)
                  L == Len(f)
              IN  /\ out[1] = f[2] - f[1]
                  /\ out[L] = f[L] - f[L - 1]
                  /\ \A i \in 2..(L - 1) : 2 * out[i] = f[i + 1] - f[i - 1]
                  /\ (\A i \in 1..L : f[i] = f[1]) => \A i \in 1..L : out[i] = 0
                  /\ (\A i \in 1..L : f[i] = f[1] + (i - 1) * (f[2] - f[1])) =>
                        \A i \in 1..L : out[i] = f[2] - f[1]

\* The gradient along axis 3 of a plane whose first row is a ramp of slope 2
\* and whose second row is not a ramp.
Wit_C18_FiniteDifferences ==
    /\ pc = "g_done" /\ frame.axis = 3
    /\ T.f = <<<<0, 2, 4>>, <<4, 0, 4>>>>
    /\ T.out = <<<<2, 2, 2>>, <<-4, 0, 4>>>>

(***************************************************************************)
(* SpecNormals: SurfaceNormals.forward on planes of MaxRows x 2 pixels     *)
(* whose values reach the ends of the finite range.  Norms and outputs are *)
(* kept in thousandths; 1e-6 is below that resolution.                     *)
(***************************************************************************)

MaxRows == 3       \* SpecNormals: rows of a depth map

NormalDepthVals == {-FMax, 0, 2, FMax}

NormalInputs == UNION {[1..H -> [1..2 -> NormalDepthVals]] : H \in 2..MaxRows}

\* NaN among values in thousandths.
MilliNaN == 1000 * NaN

\* Infinity among norms in thousandths.
MilliInf == 1000 * PosInf

RECURSIVE SqrtIn(_, _, _)
SqrtIn(x, lo, hi) ==
    IF hi - lo <= 1 THEN lo
    ELSE LET mid == (lo + hi) \div 2
         IN  IF mid * mid <= x THEN SqrtIn(x, mid, hi) ELSE SqrtIn(x, lo, mid)

\* The integer part of the square root of x.
ISqrt(x) == SqrtIn(x, 0, 46340)

\* VectorNorm without the square root.
VectorNorm_NoSqrt(gx, gy, wide) ==
    IF ~IsFinite(gx) \/ ~IsFinite(gy) THEN MilliInf
    ELSE LET n2 == gx * gx + gy * gy + 1
         IN  IF n2 > FMax THEN MilliInf ELSE 1000 * n2

\* torch.norm((gx, gy, 1), p=2), in thousandths.  A sum of squares beyond
\* the finite range is an infinity when accumulated in single precision and
\* exact when accumulated in a wider format.
VectorNorm(gx, gy, wide) ==
    IF ~IsFinite(gx) \/ ~IsFinite(gy) THEN MilliInf
    ELSE LET n2 == gx * gx + gy * gy + 1
             n == ISqrt(n2 * 1000000)
         IN  IF n2 > FMax /\ ~wide THEN MilliInf
             ELSE IF n > 1000 * FMax THEN MilliInf
             ELSE n

\* c / (n + 1e-6), in thousandths, for n >= 1 or infinite.
FDiv(c, n) ==
    IF n = MilliInf
    THEN (IF IsFinite(c) THEN 0 ELSE MilliNaN)
    ELSE IF ~IsFinite(c) THEN (IF c = NaN THEN MilliNaN ELSE 1000 * c)
    ELSE IF c >= 0 THEN (c * 1000000) \div n
    ELSE -((-c * 1000000) \div n)

\* Unary minus applied to every element of a plane (lines 16-17).
NegPlane(g) == [r \in 1..Rows(g) |-> [c \in 1..Cols(g) |-> FNeg(g[r][c])]]

InitNormals ==
    /\ opt \in [norm_loss : {TRUE}]
    /\ pc = "n_gradients"
    /\ frame = [op |-> "SurfaceNormals.forward"]
    /\ \E depth \in NormalInputs :
          T = [depth |-> depth, dzdx |-> <<>>, dzdy |-> <<>>, n |-> <<>>, out |-> <<>>]
    /\ ncalls = 0
    /\ paramsG = 0
    /\ paramsD = 0
    /\ gradG = {}
    /\ gradD = {}
    /\ requires_grad_D = TRUE
    /\ fake_A = <<>>
    /\ fake_B = <<>>
    /\ norm_maps = "undef"
    /\ fake_A_pool = ImagePool(0)
    /\ fake_B_pool = ImagePool(0)
    /\ D_fake = <<>>
    /\ loss_attr = [x \in LossAttrs |-> "undef"]
    /\ loss = "none"

NormalsFrame ==
    UNCHANGED <<opt, frame, ncalls, paramsG, paramsD, gradG, gradD, requires_grad_D,
                fake_A, fake_B, norm_maps, fake_A_pool, fake_B_pool, D_fake,
                loss_attr, loss>>

\* forward(depth), lines 16-17.
NormalsGradients ==
    /\ pc = "n_gradients"
    /\ T' = [T EXCEPT !.dzdx = NegPlane(gradient_for_normals(T.depth, 2)),
                      !.dzdy = NegPlane(gradient_for_normals(T.depth, 3))]
    /\ pc' = "n_normalize"
    /\ NormalsFrame

\* forward(depth), lines 18-20.
NormalsNormalize ==
    /\ pc = "n_normalize"
    /\ \E wide \in BOOLEAN :
          LET n == [r \in 1..Rows(T.depth) |-> [c \in 1..Cols(T.depth) |->
                       VectorNorm(T.dzdx[r][c], T.dzdy[r][c], wide)]]
          IN  T' = [T EXCEPT
                      !.n = n,
                      !.out = [r \in 1..Rows(T.depth) |-> [c \in 1..Cols(T.depth) |->
                                  <<FDiv(T.dzdx[r][c], n[r][c]),
                                    FDiv(T.dzdy[r][c], n[r][c]),
                                    FDiv(1, n[r][c])>>]]]
    /\ pc' = "n_done"
    /\ NormalsFrame

NextNormals ==
    \/ NormalsGradients
    \/ NormalsNormalize

SpecNormals == InitNormals /\ [][NextNormals]_vars

PlanePixels == {<<r, c>> : r \in 1..Rows(T.depth), c \in 1..Cols(T.depth)}

\* The vector v (thousandths) has L2 norm 1 within one percent.
UnitLength(v) ==
    /\ \A k \in 1..3 : v[k] # MilliNaN
    /\ LET s == v[1] * v[1] + v[2] * v[2] + v[3] * v[3]
       IN  990 * 990 <= s /\ s <= 1010 * 1010

\* C16 as stated: for every finite depth map every output vector has unit
\* length within tolerance, the norm divided by being at least 1.
Cex_C16_UnitNormals ==
    pc = "n_done" =>
        \A p \in PlanePixels :
            /\ T.n[p[1]][p[2]] >= 1000
            /\ UnitLength(T.out[p[1]][p[2]])

\* The differences and the sum of squares at pixel p stay in the finite range.
InRange(p) ==
    LET gx == T.dzdx[p[1]][p[2]]
        gy == T.dzdy[p[1]][p[2]]
    IN  IsFinite(gx) /\ IsFinite(gy) /\ gx * gx + gy * gy + 1 <= FMax

\* C16, amended: the norm divided by is at least 1 at every pixel, and the
\* output vector has unit length within tolerance at every pixel whose
\* finite differences and sum of squares stay in the finite range.
Thm_C16_UnitNormalsInRange ==
    pc = "n_done" =>
        \A p \in PlanePixels :
            /\ T.n[p[1]][p[2]] >= 1000
            /\ InRange(p) => UnitLength(T.out[p[1]][p[2]])

\* A map of three rows with a slanted pixel in range, its normal of unit
\* length and not vertical.
Wit_C16_UnitNormalsInRange ==
    /\ pc = "n_done" /\ Rows(T.depth) = 3
    /\ \A p \in PlanePixels : InRange(p)
    /\ \E p \in PlanePixels :
          /\ T.dzdx[p[1]][p[2]] = -1 /\ T.dzdy[p[1]][p[2]] = 2
          /\ UnitLength(T.out[p[1]][p[2]])
          /\ T.out[p[1]][p[2]][3] < 1000

\* The steps of Spec that read the normal maps: backward_G and the two
\* backward_D_X, in a training step or in calculate().
ReadsNormals ==
    {"o_backward_G", "o_backward_D_A", "o_backward_D_B",
     "c_backward_G", "c_backward_D_A", "c_backward_D_B"}

\* C17: whenever a loss computation is about to read the normal maps they are
\* those of the forward pass of the same call, whatever norm_loss is, and no
\* call ends on a read of an undefined normal map.
Cex_C17_NormalsFresh ==
    /\ pc \in ReadsNormals => norm_maps = "fresh"
    /\ pc = "raised" => frame.err # "AttributeError"

\* C19: a call that returns leaves the discriminators trainable exactly when
\* iters mod fr == 0; a call that ends in an error leaves them frozen; and
\* optimizer_D.step runs with the discriminators trainable, on gradients
\* that were zeroed and then recomputed by backward_D_A and backward_D_B in
\* the same call.
Thm_C19_TrainableFlag ==
    InOptimize =>
        /\ pc = "done" => (requires_grad_D <=> Due)
        /\ pc = "raised" => ~requires_grad_D
        /\ pc = "o_backward_D_A" => (requires_grad_D /\ gradD = {})
        /\ pc = "o_backward_D_B" => (requires_grad_D /\ gradD = {"D_A"})
        /\ pc = "o_step_D" =>
              /\ requires_grad_D
              /\ gradD = {"D_A", "D_B"}
              /\ loss_attr["D_A"] = "fresh" /\ loss_attr["D_B"] = "fresh"
        /\ paramsD # frame.D0 => requires_grad_D

\* A step that skips the discriminator phase returns with the discriminators
\* frozen, after a step that left them trainable and their gradients set.
Wit_C19_TrainableFlag ==
    /\ InOptimize /\ pc = "done" /\ ~Due
    /\ ~requires_grad_D /\ ncalls = 2
    /\ paramsD = 1 /\ gradD = {"D_A", "D_B"}

\* C20: a call with fr = 0 never returns and never enters the discriminator
\* phase; it ends in ZeroDivisionError with the generator step applied, the
\* discriminator parameters as at the start of the call and the
\* discriminators frozen; and no step of such a call changes a pool. With
\* norm_loss set this is the only error such a call ends in.
Thm_C20_ZeroFrequency ==
    /\ [](InOptimize /\ frame.fr = 0 =>
            /\ pc # "done"
            /\ pc \notin DiscriminatorPhase
            /\ paramsD = frame.D0
            /\ (pc = "raised" /\ opt.norm_loss) => frame.err = "ZeroDivisionError"
            /\ frame.err = "ZeroDivisionError" =>
                  /\ pc = "raised"
                  /\ paramsG = frame.G0 + 1
                  /\ ~requires_grad_D
                  /\ "G" \in gradG)
    /\ [][(InOptimize /\ frame.fr = 0) =>
             UNCHANGED <<fake_A_pool, fake_B_pool, paramsD>>]_vars

\* A call with fr = 0 has ended in ZeroDivisionError on a model whose pools
\* hold samples and whose discriminators an earlier step had updated.
Wit_C20_ZeroFrequency ==
    /\ InOptimize /\ frame.fr = 0 /\ pc = "raised"
    /\ frame.err = "ZeroDivisionError"
    /\ paramsG = 2 /\ paramsD = 1 /\ ~requires_grad_D
    /\ Len(fake_A_pool.images) = 1 /\ Len(fake_B_pool.images) = 1

====
